---- MODULE Spec2Model ----
(***************************************************************************)
(* Model of the serverless price-prediction proxy                          *)
(* (src/netlify/functions/predict.js, exports.handler).                    *)
(*                                                                         *)
(* One invocation of the handler is a run-to-completion JavaScript async   *)
(* function: it runs from its entry to the first await (the fetch), then   *)
(* from the settlement of each awaited promise to the next await or to its *)
(* return.  Each such stretch is one action.  The handler keeps no state   *)
(* between invocations; the variables describe the current invocation.     *)
(***************************************************************************)
EXTENDS Integers, Sequences, FiniteSets, TLC

(***************************************************************************)
(* Bounds of the model.                                                    *)
(***************************************************************************)
\* largest number of whitespace characters before / after the text of specs
MaxPad == 1
\* numbers the upstream may put in numeric fields range over -1 .. MaxNum
MaxNum == 2

(***************************************************************************)
(* Program constants.                                                      *)
(***************************************************************************)
\* predict.js:63   specs.trim().length > 2000
MaxSpecsLength == 2000

(***************************************************************************)
(* JavaScript values.                                                      *)
(*   t = "undef" | "null" | "num" | "str" | "bool" | "obj"                 *)
(*   n : the number (t = "num"), 1/0 for true/false (t = "bool")           *)
(*   s : the string (t = "str")                                            *)
(***************************************************************************)
Undef == [t |-> "undef", n |-> 0, s |-> ""]
Null == [t |-> "null", n |-> 0, s |-> ""]
Num(k) == [t |-> "num", n |-> k, s |-> ""]
Str(x) == [t |-> "str", n |-> 0, s |-> x]
Bool(b) == [t |-> "bool", n |-> IF b THEN 1 ELSE 0, s |-> ""]
EmptyObject == [t |-> "obj", n |-> 0, s |-> ""]

\* ToBoolean: the test of !x and of if (x)
Truthy(v) ==
    CASE v.t = "undef" -> FALSE
      [] v.t = "null" -> FALSE
      [] v.t = "num" -> v.n # 0
      [] v.t = "str" -> v.s # ""
      [] v.t = "bool" -> v.n = 1
      [] OTHER -> TRUE

\* ToNumber of the strings the model draws: "" is 0, a numeral is its value,
\* anything else is NaN.
StrToNumber(x) ==
    CASE x = "" -> [nan |-> FALSE, n |-> 0]
      [] x = "-5" -> [nan |-> FALSE, n |-> 0 - 5]
      [] x = "100" -> [nan |-> FALSE, n |-> 100]
      [] OTHER -> [nan |-> TRUE, n |-> 0]

\* ToNumber, as applied by the relational operator <=
ToNumber(v) ==
    CASE v.t = "undef" -> [nan |-> TRUE, n |-> 0]
      [] v.t = "null" -> [nan |-> FALSE, n |-> 0]
      [] v.t = "num" -> [nan |-> FALSE, n |-> v.n]
      [] v.t = "str" -> StrToNumber(v.s)
      [] v.t = "bool" -> [nan |-> FALSE, n |-> v.n]
      [] OTHER -> [nan |-> TRUE, n |-> 0]

\* v <= 0 in JavaScript: false whenever ToNumber(v) is NaN
LeqZero(v) == ~ToNumber(v).nan /\ ToNumber(v).n <= 0

(***************************************************************************)
(* The specs value of the request body.  A string is described by what     *)
(* trim() and length see of it: lead whitespace characters, then core      *)
(* characters that start and end with a non-whitespace character, then     *)
(* trail whitespace characters.  With core = 0 the string is all           *)
(* whitespace and lead carries its whole length (trail = 0).               *)
(***************************************************************************)
SpecsStr(l, c, r) == [t |-> "str", n |-> 0, lead |-> l, core |-> c, trail |-> r]
SpecsOther(v) == [t |-> v.t, n |-> v.n, lead |-> 0, core |-> 0, trail |-> 0]

SpecsLength(sp) == sp.lead + sp.core + sp.trail
TrimLength(sp) == sp.core

SpecsTruthy(sp) ==
    CASE sp.t = "undef" -> FALSE
      [] sp.t = "null" -> FALSE
      [] sp.t = "num" -> sp.n # 0
      [] sp.t = "bool" -> sp.n = 1
      [] sp.t = "str" -> SpecsLength(sp) > 0
      [] OTHER -> TRUE

CoreLengths == {0, 1, MaxSpecsLength, MaxSpecsLength + 1}

SpecsStrings ==
    {SpecsStr(l, c, r) : l \in 0..MaxPad, c \in CoreLengths \ {0}, r \in 0..MaxPad}
        \cup {SpecsStr(l, 0, 0) : l \in 0..MaxPad}

SpecsValues ==
    SpecsStrings
        \cup {SpecsOther(v) : v \in {Undef, Null, Num(0), Num(5), Bool(TRUE), EmptyObject}}

(***************************************************************************)
(* event.body: absent (undefined, null), the empty string, a text that is  *)
(* not JSON, or a JSON text whose value is null, a primitive, an array or  *)
(* an object; an object has a specs member (Undef when it has none).       *)
(***************************************************************************)
NoSpecs == SpecsOther(Undef)
BodyKinds == {"absent", "empty", "malformed", "jsonNull", "jsonPrimitive", "jsonArray"}
Bodies ==
    {[kind |-> k, specs |-> NoSpecs] : k \in BodyKinds}
        \cup {[kind |-> "jsonObject", specs |-> sp] : sp \in SpecsValues}

Methods == {"POST", "OPTIONS", "GET", "PUT", "undefined"}

\* process.env.GEMINI_API_KEY: unset, set to the empty string, or set
ApiKeys == {"unset", "emptyString", "set"}

\* new Date().toISOString() at the moments the handler reads the clock
Times == {"2024-01-01T00:00:00.000Z", "2024-01-01T00:00:01.000Z"}

(***************************************************************************)
(* The object the upstream model is asked to generate, reduced to the      *)
(* members the handler reads (predicted_price_inr, range_inr, product,     *)
(* last_updated) and confidence.  range_inr is either a non-object value   *)
(* (prim) or an object with members min and max (isObj).  confidence       *)
(* counts hundredths: Num(50) is 0.5.                                      *)
(***************************************************************************)
RangePrim(v) == [isObj |-> FALSE, prim |-> v, min |-> Undef, max |-> Undef]
RangeObj(lo, hi) == [isObj |-> TRUE, prim |-> EmptyObject, min |-> lo, max |-> hi]

NoObject ==
    [predicted_price_inr |-> Undef, range_inr |-> RangePrim(Undef), product |-> Undef,
     last_updated |-> Undef, confidence |-> Undef]

Numbers == (0 - 1)..MaxNum
PriceValues == {Undef, Null, Str("abc")} \cup {Num(k) : k \in Numbers}
MemberValues == {Undef, Null} \cup {Num(k) : k \in Numbers}
RangeValues ==
    {RangePrim(v) : v \in {Undef, Null, Str("abc")}}
        \cup {RangeObj(lo, hi) : lo \in MemberValues, hi \in MemberValues}
ProductValues == {Undef, Str(""), Str("Phone")}
StampValues == {Undef, Str(""), Str("2023-12-31T00:00:00.000Z")}
ConfidenceValues == {Undef, Num(50), Num(150)}

UpstreamObjects ==
    [predicted_price_inr : PriceValues, range_inr : RangeValues, product : ProductValues,
     last_updated : StampValues, confidence : ConfidenceValues]

(***************************************************************************)
(* The value of candidates[0].content.parts[0].text.  A string is          *)
(* described by what JSON.parse does to it: fence says that code-fence     *)
(* markers surround the text, payload is the text between them: not JSON,  *)
(* or the JSON text of null, of a primitive, of an array, or of an object. *)
(***************************************************************************)
PayloadKinds == {"notJson", "null", "primitive", "array"}
Payloads ==
    {[kind |-> k, obj |-> NoObject] : k \in PayloadKinds}
        \cup {[kind |-> "object", obj |-> o] : o \in UpstreamObjects}
NoPayload == [kind |-> "notJson", obj |-> NoObject]

TextUndefined == [t |-> "undef", fence |-> FALSE, payload |-> NoPayload]
TextEmpty == [t |-> "emptyString", fence |-> FALSE, payload |-> NoPayload]
TextNumber == [t |-> "number", fence |-> FALSE, payload |-> NoPayload]
TextString(f, p) == [t |-> "string", fence |-> f, payload |-> p]
Texts ==
    {TextUndefined, TextEmpty, TextNumber}
        \cup {TextString(f, p) : f \in BOOLEAN, p \in Payloads}

\* The JSON value of the upstream 2xx body, by how far the chain
\* candidates -> [0] -> content -> parts -> [0] -> text reaches.
AiShapes == {"null", "noCandidates", "emptyCandidates", "noContent", "emptyParts"}
AiDatas ==
    {[shape |-> sh, text |-> TextUndefined] : sh \in AiShapes}
        \cup {[shape |-> "part", text |-> x] : x \in Texts}
NoAiData == [shape |-> "null", text |-> TextUndefined]

\* HTTP statuses of the upstream response
Statuses == {200, 201, 304, 400, 403, 404, 429, 500, 503}

(***************************************************************************)
(* What the handler returns: { statusCode, headers, body }.  kind tells    *)
(* the shape of the body: "message" ({message}), "error" ({error, code?,   *)
(* timestamp?}) or "result" (the prediction object); "none" is no          *)
(* response.  A member the body does not have is "absent".                 *)
(***************************************************************************)
\* lines 5-10: the headers object every return statement passes
\* variant: the Access-Control-Allow-Origin header is left out
HeadersWithoutOrigin ==
    [allowOrigin |-> "absent", allowHeaders |-> "Content-Type",
     allowMethods |-> "POST, OPTIONS", contentType |-> "application/json"]

Headers ==
    [allowOrigin |-> "*", allowHeaders |-> "Content-Type",
     allowMethods |-> "POST, OPTIONS", contentType |-> "application/json"]
NoHeaders ==
    [allowOrigin |-> "absent", allowHeaders |-> "absent", allowMethods |-> "absent",
     contentType |-> "absent"]

NoResponse ==
    [status |-> 0, headers |-> NoHeaders, kind |-> "none", error |-> "absent",
     code |-> "absent", timestamp |-> "absent", result |-> NoObject]
MessageResponse(st) ==
    [status |-> st, headers |-> Headers, kind |-> "message", error |-> "absent",
     code |-> "absent", timestamp |-> "absent", result |-> NoObject]
ErrorResponse(st, msg, cd, ts) ==
    [status |-> st, headers |-> Headers, kind |-> "error", error |-> msg, code |-> cd,
     timestamp |-> ts, result |-> NoObject]
ResultResponse(st, o) ==
    [status |-> st, headers |-> Headers, kind |-> "result", error |-> "absent",
     code |-> "absent", timestamp |-> "absent", result |-> o]

\* A stretch of the handler ends by returning a response, by suspending at
\* an await (next names it), or by throwing out of the function.
Return(r) == [next |-> "done", threw |-> FALSE, response |-> r]
Await(p) == [next |-> p, threw |-> FALSE, response |-> NoResponse]
Throw == [next |-> "done", threw |-> TRUE, response |-> NoResponse]

(***************************************************************************)
(* The handler, entry to the fetch (predict.js lines 14-145).              *)
(***************************************************************************)
\* variant: the preflight test never matches
IsPreflightNever(m) == FALSE

\* lines 16, 25: the two tests of event.httpMethod
IsPreflight(m) == m = "OPTIONS"
\* variant: GET is let through to the body checks as well
MethodAllowedWithGet(m) == m \in {"POST", "GET"}
MethodAllowed(m) == m = "POST"

\* lines 35-46: JSON.parse(event.body || "{}") and the read of body.specs
\* inside the same try.  An absent or empty body parses as {}; the value
\* null parses, and !!body.specs then throws inside the try.
ParseBody(b) ==
    CASE b.kind \in {"absent", "empty"} -> [ok |-> TRUE, specs |-> NoSpecs]
      [] b.kind = "malformed" -> [ok |-> FALSE, specs |-> NoSpecs]
      [] b.kind = "jsonNull" -> [ok |-> FALSE, specs |-> NoSpecs]
      [] b.kind \in {"jsonPrimitive", "jsonArray"} -> [ok |-> TRUE, specs |-> NoSpecs]
      [] OTHER -> [ok |-> TRUE, specs |-> b.specs]

\* variant: the whitespace-only test is left out
SpecsInvalidNoTrim(sp) == ~SpecsTruthy(sp) \/ sp.t # "str"

\* line 51: !specs || typeof specs !== 'string' || specs.trim() === ""
SpecsInvalid(sp) == ~SpecsTruthy(sp) \/ sp.t # "str" \/ TrimLength(sp) = 0

\* variant: the limit is off by one
TooLongOffByOne(sp) == TrimLength(sp) > MaxSpecsLength + 1

\* line 63: specs.trim().length > 2000
TooLong(sp) == TrimLength(sp) > MaxSpecsLength

\* variant: only an unset variable counts as missing
KeyFoundIfDefined(k) == k # "unset"

\* line 75: !apiKey
KeyFound(k) == k = "set"

\* lines 14-145: the handler from its entry to the await of fetch
HandlerSync(m, b, k) ==
    IF IsPreflight(m) THEN Return(MessageResponse(200))
    ELSE IF ~MethodAllowed(m)
    THEN Return(ErrorResponse(405, "Method Not Allowed", "absent", "absent"))
    ELSE IF ~ParseBody(b).ok
    THEN Return(ErrorResponse(400, "Invalid JSON in request body", "absent", "absent"))
    ELSE IF SpecsInvalid(ParseBody(b).specs)
    THEN Return(ErrorResponse(400,
             "Product specifications are required and must be a non-empty string",
             "absent", "absent"))
    ELSE IF TooLong(ParseBody(b).specs)
    THEN Return(ErrorResponse(400,
             "Product specifications are too long. Please limit to 2000 characters.",
             "absent", "absent"))
    ELSE IF ~KeyFound(k)
    THEN Return(ErrorResponse(500, "Server configuration error - API key missing",
             "absent", "absent"))
    ELSE Await("awaitFetch")

(***************************************************************************)
(* The handler after the fetch settles (lines 147-261).                    *)
(***************************************************************************)
\* response.ok of node-fetch
Ok(st) == st >= 200 /\ st < 300

\* lines 160-167
UserMessage(st) ==
    IF st = 429 THEN "Too many requests. Please wait a moment and try again."
    ELSE IF st = 403 THEN "API access restricted. Please contact support."
    ELSE IF st = 400
    THEN "Invalid request format. Please try different product specifications."
    ELSE "AI service temporarily unavailable. Please try again."

\* line 174: `GEMINI_${response.status}`
StatusCodes ==
    [st \in Statuses |->
        CASE st = 200 -> "GEMINI_200" [] st = 201 -> "GEMINI_201"
          [] st = 304 -> "GEMINI_304" [] st = 400 -> "GEMINI_400"
          [] st = 403 -> "GEMINI_403" [] st = 404 -> "GEMINI_404"
          [] st = 429 -> "GEMINI_429" [] st = 500 -> "GEMINI_500"
          [] OTHER -> "GEMINI_503"]
GeminiCode(st) == StatusCodes[st]

\* variant: an unparseable error body is not caught and ends in the
\* generic 500
UpstreamErrorNeedsBody(st, parsed) ==
    IF parsed THEN Return(ErrorResponse(st, UserMessage(st), GeminiCode(st), "absent"))
    ELSE Return(ErrorResponse(500, "Internal server error. Please try again later.",
                    "SERVER_ERROR", "absent"))

\* lines 159-176: the response to a non-2xx upstream status, reached
\* whether response.json() of the error body resolved (line 152) or was
\* caught (lines 154-157)
UpstreamErrorResponse(st, parsed) ==
    Return(ErrorResponse(st, UserMessage(st), GeminiCode(st), "absent"))

\* variant: the exception leaves the handler
OnExceptionRethrow(now) == Throw

\* lines 243-260: the top-level catch
OnException(now) ==
    Return(ErrorResponse(500, "Internal server error. Please try again later.",
               "SERVER_ERROR", now))

\* line 183: aiData?.candidates?.[0]?.content?.parts?.[0]?.text
GeneratedText(ai) == IF ai.shape = "part" THEN ai.text ELSE TextUndefined

\* variant: only a missing text counts, an empty string goes on to the parse
TextFalsyUndefinedOnly(x) == x.t = "undef"

\* line 185: !generatedText
TextFalsy(x) == x.t \in {"undef", "emptyString"}

\* line 202: JSON.parse(generatedText).  A non-string is converted to a
\* string first, and the numeral of a number is JSON; the markers of a code
\* fence are not.
JsonParse(x) ==
    IF x.t = "number" THEN [ok |-> TRUE, kind |-> "primitive", obj |-> NoObject]
    ELSE IF x.fence \/ x.payload.kind = "notJson"
    THEN [ok |-> FALSE, kind |-> "notJson", obj |-> NoObject]
    ELSE [ok |-> TRUE, kind |-> x.payload.kind, obj |-> x.payload.obj]

\* result.range_inr.min / .max with result.range_inr truthy: a member of an
\* object, undefined on a primitive
RangeMin(r) == IF r.isObj THEN r.min ELSE Undef
RangeMax(r) == IF r.isObj THEN r.max ELSE Undef
RangeTruthy(r) == IF r.isObj THEN TRUE ELSE Truthy(r.prim)

\* line 206
MissingRequired(o) ==
    ~Truthy(o.predicted_price_inr) \/ ~RangeTruthy(o.range_inr) \/ ~Truthy(o.product)

\* line 211
NonPositive(o) ==
    LeqZero(o.predicted_price_inr) \/ LeqZero(RangeMin(o.range_inr))
        \/ LeqZero(RangeMax(o.range_inr))

\* variant: the timestamp is always overwritten
AddTimestampAlways(o, now) == [o EXCEPT !.last_updated = Str(now)]

\* lines 216-218
AddTimestamp(o, now) ==
    IF ~Truthy(o.last_updated) THEN [o EXCEPT !.last_updated = Str(now)] ELSE o

\* lines 201-219: the body of the inner try; TRUE when it completes.  Line
\* 203 reads result.product, which throws when result is null.
Accepted(x) ==
    /\ JsonParse(x).ok
    /\ JsonParse(x).kind # "null"
    /\ ~MissingRequired(JsonParse(x).obj)
    /\ ~NonPositive(JsonParse(x).obj)

\* lines 220-232: the inner catch.  generatedText.substring throws when
\* the text is not a string, and that exception reaches the top-level catch.
\* variant: the message carries what the parse found in the raw text
OnParseErrorLeaks(x, now) ==
    IF x.t \notin {"string", "emptyString"} THEN OnException(now)
    ELSE Return(ErrorResponse(500,
             IF x.fence THEN "Unexpected token in JSON at position 0"
             ELSE "AI response format error. Please try again with clearer product specifications.",
             "INVALID_AI_JSON", "absent"))

\* variant: a price drawn from the clock stands in for the unparseable reply
OnParseErrorRandomPrice(x, now) ==
    Return(ResultResponse(200,
        [NoObject EXCEPT !.predicted_price_inr =
                             Num(IF now = "2024-01-01T00:00:00.000Z" THEN 1 ELSE 2)]))

OnParseError(x, now) ==
    IF x.t \notin {"string", "emptyString"} THEN OnException(now)
    ELSE Return(ErrorResponse(500,
             "AI response format error. Please try again with clearer product specifications.",
             "INVALID_AI_JSON", "absent"))

\* lines 183-241: the handler from the resolved response.json() to its return
Normalize(ai, now) ==
    IF TextFalsy(GeneratedText(ai))
    THEN Return(ErrorResponse(500,
             "AI model did not generate a response. Please try with different product specifications.",
             "absent", "absent"))
    ELSE IF ~Accepted(GeneratedText(ai)) THEN OnParseError(GeneratedText(ai), now)
    ELSE Return(ResultResponse(200, AddTimestamp(JsonParse(GeneratedText(ai)).obj, now)))

\* lines 147-152, 180: after fetch resolves, the handler awaits
\* response.json(), of the error body on a non-2xx status
OnFetchResolved(st) == IF ~Ok(st) THEN Await("awaitErrorJson") ELSE Await("awaitJson")

(***************************************************************************)
(* State.                                                                  *)
(*   pc         where the invocation stands: "idle" (none yet),            *)
(*              "awaitFetch", "awaitErrorJson", "awaitJson", "done"        *)
(*   method, body, apiKey   event.httpMethod, event.body and               *)
(*              process.env.GEMINI_API_KEY of the invocation               *)
(*   fetchCalls number of upstream HTTP requests the invocation issued     *)
(*   fetchState "none", "pending", "resolved", "timeout", "network"        *)
(*   upStatus   status of the upstream response (0: none)                  *)
(*   bodyRead   outcome of response.json(): "none", "parsed", "failed"     *)
(*   aiData     the parsed 2xx body                                        *)
(*   response   what the handler returned                                  *)
(*   threw      the handler's promise rejected                             *)
(***************************************************************************)
VARIABLES pc, method, body, apiKey, fetchCalls, fetchState, upStatus, bodyRead,
          aiData, response, threw

\* An earlier invocation, kept by the caller that repeats it: << >> or a
\* one-element sequence holding its inputs, the upstream's outputs and the
\* response.  The handler never reads it.
VARIABLE first

\* no document is loaded: the handler runs on the server
NoPage == [loaded |-> FALSE]

handlerVars ==
    <<pc, method, body, apiKey, fetchCalls, fetchState, upStatus, bodyRead, aiData,
      response, threw>>

\* The browser page of a client (src/unnamed): the PricePredictor object, the
\* elements it holds and the window's interval timers, as one record; the
\* requests a client has sent and not yet handled; those of them whose fetch
\* has resolved and whose predictPrice waits for response.json(); the outcome
\* of the response handled last.  The handler never reads them.
VARIABLES page, inFlight, reading, handled

browser == <<page, inFlight, reading, handled>>

\* what no step of the handler touches
outside == <<first, browser>>

vars == <<handlerVars, outside>>

request == <<method, body, apiKey>>

HandlerIdle ==
    /\ pc = "idle"
    /\ method = "undefined"
    /\ body = [kind |-> "absent", specs |-> NoSpecs]
    /\ apiKey = "unset"
    /\ fetchCalls = 0
    /\ fetchState = "none"
    /\ upStatus = 0
    /\ bodyRead = "none"
    /\ aiData = NoAiData
    /\ response = NoResponse
    /\ threw = FALSE
    /\ first = << >>

Init ==
    /\ HandlerIdle
    /\ page = NoPage
    /\ inFlight = {}
    /\ reading = {}
    /\ handled = "none"

\* the end of a stretch of the handler
Continue(out) ==
    /\ pc' = out.next
    /\ response' = out.response
    /\ threw' = out.threw

\* The host invokes the handler (lines 3-145).  Reaching line 137 issues
\* the one upstream request.
Invoke(m, b, k) ==
    /\ pc = "idle"
    /\ method' = m
    /\ body' = b
    /\ apiKey' = k
    /\ Continue(HandlerSync(m, b, k))
    /\ fetchCalls' = IF HandlerSync(m, b, k).next = "awaitFetch" THEN 1 ELSE 0
    /\ fetchState' = IF HandlerSync(m, b, k).next = "awaitFetch" THEN "pending" ELSE "none"
    /\ upStatus' = 0
    /\ bodyRead' = "none"
    /\ aiData' = NoAiData

\* fetch resolves with an upstream response of status st (line 137)
FetchResolve(st) ==
    /\ pc = "awaitFetch"
    /\ fetchState' = "resolved"
    /\ upStatus' = st
    /\ Continue(OnFetchResolved(st))
    /\ UNCHANGED <<request, fetchCalls, bodyRead, aiData>>

\* fetch rejects: the 30 s timeout of line 144 elapsed, or the network failed
FetchReject(why, now) ==
    /\ pc = "awaitFetch"
    /\ fetchState' = why
    /\ Continue(OnException(now))
    /\ UNCHANGED <<request, fetchCalls, upStatus, bodyRead, aiData>>

\* response.json() of a non-2xx response settles (lines 151-176)
ErrorJsonSettle(parsed) ==
    /\ pc = "awaitErrorJson"
    /\ bodyRead' = IF parsed THEN "parsed" ELSE "failed"
    /\ Continue(UpstreamErrorResponse(upStatus, parsed))
    /\ UNCHANGED <<request, fetchCalls, fetchState, upStatus, aiData>>

\* response.json() of a 2xx response resolves with ai (lines 180-241)
JsonResolve(ai, now) ==
    /\ pc = "awaitJson"
    /\ bodyRead' = "parsed"
    /\ aiData' = ai
    /\ Continue(Normalize(ai, now))
    /\ UNCHANGED <<request, fetchCalls, fetchState, upStatus>>

\* response.json() of a 2xx response rejects: the body is not JSON, or
\* reading it failed (line 180)
JsonReject(now) ==
    /\ pc = "awaitJson"
    /\ bodyRead' = "failed"
    /\ Continue(OnException(now))
    /\ UNCHANGED <<request, fetchCalls, fetchState, upStatus, aiData>>

\* The host hands the response (or the rejection) to the caller and the
\* invocation is over; nothing of it is kept (the handler has no state
\* outside its locals).
Complete ==
    /\ pc = "done"
    /\ pc' = "idle"
    /\ method' = "undefined"
    /\ body' = [kind |-> "absent", specs |-> NoSpecs]
    /\ apiKey' = "unset"
    /\ fetchCalls' = 0
    /\ fetchState' = "none"
    /\ upStatus' = 0
    /\ bodyRead' = "none"
    /\ aiData' = NoAiData
    /\ response' = NoResponse
    /\ threw' = FALSE

Next ==
    \/ pc = "idle" /\ (\E m \in Methods, b \in Bodies, k \in ApiKeys : Invoke(m, b, k))
          /\ UNCHANGED outside
    \/ pc = "awaitFetch" /\ (\E st \in Statuses : FetchResolve(st)) /\ UNCHANGED outside
    \/ pc = "awaitFetch"
          /\ (\E why \in {"timeout", "network"}, now \in Times : FetchReject(why, now))
          /\ UNCHANGED outside
    \/ pc = "awaitErrorJson" /\ (\E parsed \in BOOLEAN : ErrorJsonSettle(parsed))
          /\ UNCHANGED outside
    \/ pc = "awaitJson" /\ (\E ai \in AiDatas, now \in Times : JsonResolve(ai, now))
          /\ UNCHANGED outside
    \/ pc = "awaitJson" /\ (\E now \in Times : JsonReject(now)) /\ UNCHANGED outside
    \/ Complete /\ UNCHANGED outside

Spec == Init /\ [][Next]_vars

(***************************************************************************)
(* The same request twice against an upstream stub that returns the same   *)
(* output: the caller keeps the first invocation, then invokes the handler *)
(* again with the same event and environment, and the stub settles each    *)
(* promise as it did the first time.  Only the clock is free.              *)
(***************************************************************************)
Snapshot ==
    [method |-> method, body |-> body, apiKey |-> apiKey, fetchCalls |-> fetchCalls,
     fetchState |-> fetchState, upStatus |-> upStatus, bodyRead |-> bodyRead,
     aiData |-> aiData, response |-> response, threw |-> threw]

Repeating == first # << >>

\* the caller keeps the finished invocation
Remember == ~Repeating /\ Complete /\ first' = <<Snapshot>> /\ UNCHANGED browser

RepeatInvoke ==
    /\ Repeating
    /\ Invoke(first[1].method, first[1].body, first[1].apiKey)
    /\ UNCHANGED outside

RepeatFetchResolve ==
    /\ Repeating
    /\ first[1].fetchState = "resolved"
    /\ FetchResolve(first[1].upStatus)
    /\ UNCHANGED outside

RepeatFetchReject ==
    /\ Repeating
    /\ first[1].fetchState \in {"timeout", "network"}
    /\ \E now \in Times : FetchReject(first[1].fetchState, now)
    /\ UNCHANGED outside

RepeatErrorJsonSettle ==
    /\ Repeating
    /\ ErrorJsonSettle(first[1].bodyRead = "parsed")
    /\ UNCHANGED outside

RepeatJsonResolve ==
    /\ Repeating
    /\ first[1].bodyRead = "parsed"
    /\ \E now \in Times : JsonResolve(first[1].aiData, now)
    /\ UNCHANGED outside

RepeatJsonReject ==
    /\ Repeating
    /\ first[1].bodyRead = "failed"
    /\ \E now \in Times : JsonReject(now)
    /\ UNCHANGED outside

\* the caller has compared the two and starts over
Forget == Repeating /\ Complete /\ first' = << >> /\ UNCHANGED browser

RepeatNext ==
    \/ ~Repeating /\ Next
    \/ Remember
    \/ RepeatInvoke
    \/ RepeatFetchResolve
    \/ RepeatFetchReject
    \/ RepeatErrorJsonSettle
    \/ RepeatJsonResolve
    \/ RepeatJsonReject
    \/ Forget

RepeatSpec == Init /\ [][RepeatNext]_vars

(***************************************************************************)
(* Vocabulary of the properties, stated on the inputs of the invocation    *)
(* and not through the handler's own tests.                                *)
(***************************************************************************)
Responded == pc = "done"

\* the specs member of the request body as the caller sent it
SentSpecs == IF body.kind = "jsonObject" THEN body.specs ELSE NoSpecs
SpecsMissing == SentSpecs.t = "undef"
SpecsBlank == SentSpecs.t = "str" /\ SentSpecs.core = 0
SpecsUsable ==
    /\ SentSpecs.t = "str"
    /\ SentSpecs.core >= 1
    /\ SentSpecs.core <= 2000

\* the upstream answered 2xx, its body was read, and the generated text is
\* a non-empty string
TextArrived ==
    /\ fetchState = "resolved"
    /\ upStatus >= 200 /\ upStatus <= 299
    /\ bodyRead = "parsed"
    /\ aiData.shape = "part"
    /\ aiData.text.t = "string"
Sent == aiData.text.payload.obj
SentIsObject == ~aiData.text.fence /\ aiData.text.payload.kind = "object"
IsPositive(v) == v.t = "num" /\ v.n > 0
IsNonPositiveNumber(v) == v.t = "num" /\ v.n <= 0

\* the code member expected for each upstream status
ExpectedCode ==
    (304 :> "GEMINI_304") @@ (400 :> "GEMINI_400") @@ (403 :> "GEMINI_403")
        @@ (404 :> "GEMINI_404") @@ (429 :> "GEMINI_429") @@ (500 :> "GEMINI_500")
        @@ (503 :> "GEMINI_503")

(***************************************************************************)
(* C1 (as stated): a POST whose specs is missing, empty, whitespace-only   *)
(* or longer than 2000 characters is answered 400, whatever the            *)
(* credential.                                                             *)
(***************************************************************************)
C1_RawLengthRejected ==
    (Responded /\ method = "POST"
        /\ (SpecsMissing \/ SpecsBlank
              \/ (SentSpecs.t = "str"
                    /\ SentSpecs.lead + SentSpecs.core + SentSpecs.trail > 2000)))
        => response.status = 400

(***************************************************************************)
(* C1 (amended): a POST whose specs is missing, empty, whitespace-only or  *)
(* longer than 2000 characters after trimming is answered 400 with an      *)
(* error body, whatever the credential; no upstream request is issued.     *)
(***************************************************************************)
C1_InvalidSpecsRejected ==
    (Responded /\ method = "POST"
        /\ (SpecsMissing \/ SpecsBlank
              \/ (SentSpecs.t = "str" /\ SentSpecs.core > 2000)))
        => (response.status = 400 /\ response.kind = "error" /\ fetchCalls = 0)

C1_Witness ==
    /\ Responded /\ method = "POST" /\ apiKey = "set"
    /\ SentSpecs.t = "str" /\ SentSpecs.core = 2001
    /\ response.status = 400

(***************************************************************************)
(* C2 (as stated): every method other than POST is answered 405.           *)
(***************************************************************************)
C2_NonPostIs405 == (Responded /\ method # "POST") => response.status = 405

(***************************************************************************)
(* C2 (amended): every method other than POST and OPTIONS is answered 405; *)
(* OPTIONS is answered 200.                                                *)
(***************************************************************************)
C2_OtherMethodsAre405 ==
    /\ (Responded /\ method \notin {"POST", "OPTIONS"}) => response.status = 405
    /\ (Responded /\ method = "OPTIONS") => response.status = 200

C2_Witness ==
    /\ Responded /\ method = "GET" /\ apiKey = "set"
    /\ body.kind = "jsonObject" /\ SpecsUsable
    /\ response.status = 405

(***************************************************************************)
(* C3 (as stated): when the upstream answers 2xx and the generated text is *)
(* not valid JSON, or omits predicted_price_inr, range_inr or product, or  *)
(* holds a non-positive price, the handler answers 200 with a synthesized  *)
(* result of confidence 0.5; the malformed reply is never an error status. *)
(* (The claim's further conjuncts, a non-empty anomalies list and a range  *)
(* of round(point*0.9)..round(point*1.1), speak of a synthesized result    *)
(* the handler never builds.)                                              *)
(***************************************************************************)
C3_MalformedReplyAbsorbed ==
    (Responded /\ TextArrived
        /\ (\/ aiData.text.fence
            \/ aiData.text.payload.kind # "object"
            \/ Sent.predicted_price_inr.t = "undef"
            \/ (~Sent.range_inr.isObj /\ Sent.range_inr.prim.t = "undef")
            \/ Sent.product.t = "undef"
            \/ IsNonPositiveNumber(Sent.predicted_price_inr)
            \/ (Sent.range_inr.isObj /\ IsNonPositiveNumber(Sent.range_inr.min))
            \/ (Sent.range_inr.isObj /\ IsNonPositiveNumber(Sent.range_inr.max))))
        => (response.status = 200 /\ response.kind = "result"
               /\ response.result.confidence = Num(50))

(***************************************************************************)
(* C4 (as stated): every result returned with status 200 to a POST has     *)
(* predicted_price_inr > 0, range_inr.min > 0,                             *)
(* range_inr.min <= predicted_price_inr <= range_inr.max and               *)
(* 0 <= confidence <= 1.                                                   *)
(***************************************************************************)
C4_ResultWellFormed ==
    (Responded /\ method = "POST" /\ response.status = 200)
        => /\ IsPositive(response.result.predicted_price_inr)
           /\ response.result.range_inr.isObj
           /\ IsPositive(response.result.range_inr.min)
           /\ response.result.range_inr.max.t = "num"
           /\ response.result.range_inr.min.n <= response.result.predicted_price_inr.n
           /\ response.result.predicted_price_inr.n <= response.result.range_inr.max.n
           /\ response.result.confidence.t = "num"
           /\ response.result.confidence.n >= 0
           /\ response.result.confidence.n <= 100

(***************************************************************************)
(* C5 (as stated): a parsed upstream object becomes the 200 result only if *)
(* it has predicted_price_inr, range_inr.min, range_inr.max and product    *)
(* and the three numeric members are strictly positive numbers; a failed   *)
(* check never makes the handler throw.                                    *)
(***************************************************************************)
C5_OnlyCheckedObjectsAccepted ==
    /\ Responded => ~threw
    /\ (Responded /\ method = "POST" /\ response.status = 200)
        => /\ TextArrived /\ SentIsObject
           /\ IsPositive(Sent.predicted_price_inr)
           /\ Sent.range_inr.isObj
           /\ IsPositive(Sent.range_inr.min)
           /\ IsPositive(Sent.range_inr.max)
           /\ Sent.product.t # "undef"

(***************************************************************************)
(* C6 (as stated): when the upstream returns well-formed JSON with the     *)
(* required members and positive prices, the response is 200 and its body  *)
(* is the upstream object with every member unmodified, except that        *)
(* last_updated is added when the upstream object lacks it.                *)
(***************************************************************************)
C6_PassThroughUnlessLacking ==
    (Responded /\ TextArrived /\ SentIsObject
        /\ IsPositive(Sent.predicted_price_inr)
        /\ Sent.range_inr.isObj
        /\ IsPositive(Sent.range_inr.min)
        /\ IsPositive(Sent.range_inr.max)
        /\ Sent.product.t # "undef")
        => /\ response.status = 200
           /\ response.kind = "result"
           /\ IF Sent.last_updated.t = "undef"
              THEN \E now \in Times :
                       response.result = [Sent EXCEPT !.last_updated = Str(now)]
              ELSE response.result = Sent

(***************************************************************************)
(* C6 (amended): when the upstream returns well-formed JSON with positive  *)
(* predicted_price_inr, range_inr.min and range_inr.max and a non-empty    *)
(* product, the response is 200 and its body is the upstream object with   *)
(* every member unmodified, except that last_updated is set to the current *)
(* time when the upstream object lacks it or holds an empty (falsy) value; *)
(* a missing optional member (confidence, last_updated) never causes       *)
(* rejection.                                                              *)
(***************************************************************************)
C6_PassThroughUnlessFalsy ==
    (Responded /\ TextArrived /\ SentIsObject
        /\ IsPositive(Sent.predicted_price_inr)
        /\ Sent.range_inr.isObj
        /\ IsPositive(Sent.range_inr.min)
        /\ IsPositive(Sent.range_inr.max)
        /\ Sent.product.t = "str" /\ Sent.product.s # "")
        => /\ response.status = 200
           /\ response.kind = "result"
           /\ IF Sent.last_updated.t = "undef" \/ Sent.last_updated = Str("")
              THEN \E now \in Times :
                       response.result = [Sent EXCEPT !.last_updated = Str(now)]
              ELSE response.result = Sent

C6_Witness ==
    /\ Responded /\ TextArrived /\ SentIsObject
    /\ IsPositive(Sent.predicted_price_inr)
    /\ Sent.range_inr.isObj
    /\ IsPositive(Sent.range_inr.min)
    /\ IsPositive(Sent.range_inr.max)
    /\ Sent.product = Str("Phone")
    /\ Sent.confidence.t = "undef"
    /\ Sent.last_updated.t = "str" /\ Sent.last_updated.s # ""
    /\ response.status = 200
    /\ response.result = Sent

(***************************************************************************)
(* C7: when the upstream answers with a non-2xx status s, the response has *)
(* status s and code "GEMINI_<s>", and its message is chosen by s alone    *)
(* (429: rate limit, 403: access restricted, 400: invalid request, any     *)
(* other: service unavailable), whether or not the error body parsed.      *)
(***************************************************************************)
C7_UpstreamStatusMapped ==
    (Responded /\ fetchState = "resolved" /\ (upStatus < 200 \/ upStatus > 299))
        => /\ response.status = upStatus
           /\ response.kind = "error"
           /\ response.code = ExpectedCode[upStatus]
           /\ response.timestamp = "absent"
           /\ response.error =
                 CASE upStatus = 429 ->
                        "Too many requests. Please wait a moment and try again."
                   [] upStatus = 403 ->
                        "API access restricted. Please contact support."
                   [] upStatus = 400 ->
                        "Invalid request format. Please try different product specifications."
                   [] OTHER ->
                        "AI service temporarily unavailable. Please try again."

C7_Witness ==
    /\ Responded /\ fetchState = "resolved" /\ upStatus = 429
    /\ bodyRead = "failed"
    /\ response.status = 429 /\ response.code = "GEMINI_429"

(***************************************************************************)
(* C8: a POST with valid specs while the API credential is absent from the *)
(* environment is answered 500 (configuration error) and no upstream       *)
(* request is attempted.                                                   *)
(***************************************************************************)
C8_MissingKeyIs500 ==
    (pc # "idle" /\ method = "POST" /\ SpecsUsable /\ apiKey \in {"unset", "emptyString"})
        => /\ Responded
           /\ response.status = 500
           /\ response.error = "Server configuration error - API key missing"
           /\ fetchCalls = 0
           /\ fetchState = "none"

C8_Witness ==
    /\ Responded /\ method = "POST" /\ SpecsUsable /\ apiKey = "unset"
    /\ response.status = 500 /\ fetchCalls = 0

(***************************************************************************)
(* C9: an invocation issues at most one upstream request (none is added    *)
(* after a failure, a timeout or a malformed reply); exactly one when the  *)
(* method is POST, the body passed validation and the credential was       *)
(* found, and none otherwise.                                              *)
(***************************************************************************)
C9_SingleUpstreamCall ==
    /\ fetchCalls <= 1
    /\ pc # "idle" =>
          fetchCalls = IF method = "POST" /\ SpecsUsable /\ apiKey = "set" THEN 1 ELSE 0
    /\ pc \in {"awaitFetch", "awaitErrorJson", "awaitJson"} => fetchCalls = 1

C9_Witness ==
    /\ Responded /\ fetchState = "timeout" /\ fetchCalls = 1
    /\ response.status = 500

(***************************************************************************)
(* C10: every invocation ends by returning a response and never by         *)
(* throwing; an upstream timeout or network failure, a failure to read the *)
(* upstream 2xx body, and an exception raised while handling the reply are *)
(* all answered 500 with the fixed message and code SERVER_ERROR.          *)
(***************************************************************************)
C10_ExceptionsBecome500 ==
    /\ Responded => (~threw /\ response.kind # "none")
    /\ (Responded
          /\ (\/ fetchState \in {"timeout", "network"}
              \/ (fetchState = "resolved" /\ upStatus >= 200 /\ upStatus <= 299
                    /\ bodyRead = "failed")
              \/ (bodyRead = "parsed" /\ aiData.shape = "part"
                    /\ aiData.text.t = "number")))
        => /\ response.status = 500
           /\ response.kind = "error"
           /\ response.error = "Internal server error. Please try again later."
           /\ response.code = "SERVER_ERROR"

C10_Witness ==
    /\ Responded /\ fetchState = "resolved" /\ upStatus = 200 /\ bodyRead = "failed"
    /\ ~threw /\ response.code = "SERVER_ERROR"

(***************************************************************************)
(* C11: an OPTIONS request is answered 200 with the preflight message for  *)
(* every body (absent, malformed JSON, invalid specs) and every credential *)
(* configuration; the body plays no part in the answer and no upstream     *)
(* request is issued.                                                      *)
(***************************************************************************)
C11_PreflightIndependentOfBody ==
    (pc # "idle" /\ method = "OPTIONS")
        => /\ Responded
           /\ response.status = 200
           /\ response.kind = "message"
           /\ response.error = "absent"
           /\ fetchCalls = 0
           /\ fetchState = "none"
           /\ bodyRead = "none"

C11_Witness ==
    /\ Responded /\ method = "OPTIONS" /\ body.kind = "malformed" /\ apiKey = "unset"
    /\ response.status = 200

(***************************************************************************)
(* C12: every response the handler returns, on every path, carries         *)
(* Access-Control-Allow-Origin: *, Access-Control-Allow-Headers:           *)
(* Content-Type, Access-Control-Allow-Methods: POST, OPTIONS and           *)
(* Content-Type: application/json.                                         *)
(***************************************************************************)
C12_SameHeadersOnEveryPath ==
    Responded
        => /\ response.headers.allowOrigin = "*"
           /\ response.headers.allowHeaders = "Content-Type"
           /\ response.headers.allowMethods = "POST, OPTIONS"
           /\ response.headers.contentType = "application/json"

C12_Witness ==
    /\ Responded /\ fetchState = "network" /\ response.code = "SERVER_ERROR"
    /\ response.headers.allowOrigin = "*"

(***************************************************************************)
(* C13: an error response does not depend on internal details.  Its        *)
(* status, error and code are a function of public facts alone: the        *)
(* upstream status for a non-2xx reply, and nothing at all for a rejected  *)
(* generated text or a thrown exception.  Hence two invocations that       *)
(* differ only in the upstream error body (parseable or not), in the       *)
(* rejected text (fenced, not JSON, or an object failing the checks) or in *)
(* the exception (timeout, network failure, unreadable body) return the    *)
(* same status, error and code; the body carries no member besides error,  *)
(* code and the clock's timestamp.                                         *)
(***************************************************************************)
PublicMessage(st) ==
    CASE st = 429 -> "Too many requests. Please wait a moment and try again."
      [] st = 403 -> "API access restricted. Please contact support."
      [] st = 400 -> "Invalid request format. Please try different product specifications."
      [] OTHER -> "AI service temporarily unavailable. Please try again."

UpstreamFailed == fetchState = "resolved" /\ (upStatus < 200 \/ upStatus > 299)
ExceptionThrown ==
    \/ fetchState \in {"timeout", "network"}
    \/ (fetchState = "resolved" /\ upStatus >= 200 /\ upStatus <= 299
          /\ bodyRead = "failed")
TextRejected == TextArrived /\ response.status # 200

C13_ErrorsIndependentOfInternals ==
    /\ (Responded /\ UpstreamFailed)
          => <<response.status, response.error, response.code>>
                 = <<upStatus, PublicMessage(upStatus), ExpectedCode[upStatus]>>
    /\ (Responded /\ ExceptionThrown)
          => <<response.status, response.error, response.code>>
                 = <<500, "Internal server error. Please try again later.",
                      "SERVER_ERROR">>
    /\ (Responded /\ TextRejected)
          => <<response.status, response.error, response.code>>
                 = <<500,
                      "AI response format error. Please try again with clearer product specifications.",
                      "INVALID_AI_JSON">>
    /\ (Responded /\ (UpstreamFailed \/ ExceptionThrown \/ TextRejected))
          => /\ response.kind = "error"
             /\ response.result = NoObject
             /\ response.timestamp \in Times \cup {"absent"}

C13_Witness ==
    /\ Responded /\ TextArrived /\ aiData.text.fence
    /\ aiData.text.payload.kind = "object"
    /\ response.code = "INVALID_AI_JSON"

(***************************************************************************)
(* C15 (as stated): code-fence markers around the generated text are       *)
(* stripped before the JSON parse, so a well-formed, valid result object   *)
(* wrapped in a code fence is handled like the same object without the     *)
(* fence: it is returned with status 200.                                  *)
(***************************************************************************)
C15_FencedObjectAccepted ==
    (Responded /\ TextArrived /\ aiData.text.fence
        /\ aiData.text.payload.kind = "object"
        /\ IsPositive(Sent.predicted_price_inr)
        /\ Sent.range_inr.isObj
        /\ IsPositive(Sent.range_inr.min)
        /\ IsPositive(Sent.range_inr.max)
        /\ Sent.product = Str("Phone"))
        => /\ response.status = 200
           /\ response.kind = "result"
           /\ response.result.predicted_price_inr = Sent.predicted_price_inr

(***************************************************************************)
(* C16: when the upstream answers 2xx but its body has no non-empty text   *)
(* at candidates[0].content.parts[0].text (no candidates, empty parts, or  *)
(* an empty string), the handler returns 500 with the message that the AI  *)
(* model did not generate a response and no code member; the text is never *)
(* handed to the JSON parse (neither INVALID_AI_JSON nor a result follows).*)
(***************************************************************************)
C16_NoTextIs500 ==
    (Responded /\ fetchState = "resolved" /\ bodyRead = "parsed"
        /\ upStatus >= 200 /\ upStatus <= 299
        /\ (aiData.shape # "part" \/ aiData.text.t \in {"undef", "emptyString"}))
        => /\ response.status = 500
           /\ response.kind = "error"
           /\ response.error =
                 "AI model did not generate a response. Please try with different product specifications."
           /\ response.code = "absent"
           /\ response.timestamp = "absent"

C16_Witness ==
    /\ Responded /\ fetchState = "resolved" /\ bodyRead = "parsed"
    /\ aiData.shape = "part" /\ aiData.text.t = "emptyString"
    /\ response.status = 500 /\ response.code = "absent"

(***************************************************************************)
(* C14: two invocations with the same request against an upstream stub     *)
(* that returns the same output yield the same status and the same body    *)
(* except for the timestamp members (timestamp, last_updated): no value is *)
(* drawn at random or from the clock, and nothing of the first invocation  *)
(* reaches the second.  Checked under RepeatSpec.                          *)
(***************************************************************************)
WithoutTimestamps(r) ==
    [r EXCEPT !.timestamp = "absent", !.result.last_updated = Undef]

C14_RepeatedRequestSameAnswer ==
    (Repeating /\ Responded)
        => /\ WithoutTimestamps(response) = WithoutTimestamps(first[1].response)
           /\ threw = first[1].threw
           /\ fetchCalls = first[1].fetchCalls

C14_Witness ==
    /\ Repeating /\ Responded
    /\ response.status = 200
    /\ response.result.last_updated # first[1].response.result.last_updated
    /\ response.result.predicted_price_inr = first[1].response.result.predicted_price_inr


(***************************************************************************)
(* The two browser clients.  A page is a record: the value of the textarea, *)
(* the predict button's disabled flag, the sections' "hidden" class, the    *)
(* loading text, the error text, PricePredictor.loadingInterval, and the    *)
(* window's timer table (the ids setInterval has scheduled and the "step"   *)
(* each callback closes over).  Each specification below starts from the    *)
(* page its constructor leaves and leaves the handler at rest.              *)
(***************************************************************************)

\* requests one page sends during a run
MaxSubmits == 3

TimerIds == 1 .. MaxSubmits

Sections == {"input", "loading", "results", "error"}

\* what the user can have typed: nothing, blanks, a description
InputValues == {"", "  ", "laptop"}

\* String.prototype.trim on the values above
Trim(v) == IF v = "  " THEN "" ELSE v

\* how a sent request ends for handleSubmit: predictPrice returns a result
\* that renders, returns one whose rendering throws, or throws
Outcomes == {"success", "renderThrows", "failure"}

\* this.loadingInterval = null
NoInterval == 0

\* clearInterval(id): an id that is not scheduled is ignored
ClearInterval(p, id) == [p EXCEPT !.timers = @ \ {id}]

\* loadingText shows the markup's own text (0) or loadingMessages[k-1] (k)
Message(k) == k + 1

(***************************************************************************)
(* src/unnamed/part_001: the prediction-history client.                    *)
(***************************************************************************)

\* this.loadingMessages.length
History_Messages == 6

\* the markup (loading and error sections carry class "hidden") and the
\* constructor
History_Page ==
    [loaded |-> TRUE,
     specsInput |-> "",
     disabled |-> FALSE,
     hidden |-> [x \in Sections |-> x \in {"loading", "error"}],
     loadingText |-> 0,
     errorMessage |-> "markup",
     loadingInterval |-> NoInterval,
     timers |-> {},
     step |-> [i \in TimerIds |-> 0],
     lastTimer |-> 0,
     predictions |-> 0]

History_showLoading(p) ==
    [p EXCEPT !.disabled = TRUE,
              !.hidden = [@ EXCEPT !["loading"] = FALSE, !["error"] = TRUE]]

History_hideLoading(p) ==
    LET q == [p EXCEPT !.disabled = FALSE, !.hidden["loading"] = TRUE]
    IN  IF q.loadingInterval # NoInterval
        THEN [ClearInterval(q, q.loadingInterval) EXCEPT !.loadingInterval = NoInterval]
        ELSE q

History_showError(p, message) ==
    [p EXCEPT !.errorMessage = message,
              !.hidden = [@ EXCEPT !["error"] = FALSE, !["loading"] = TRUE]]

History_hideError(p) == [p EXCEPT !.hidden["error"] = TRUE]

\* setInterval hands out the next id; the id replaces whatever
\* loadingInterval held, which is not cleared
History_simulateLoadingSteps(p) ==
    LET id == p.lastTimer + 1
    IN  [p EXCEPT !.loadingText = Message(0),
                  !.loadingInterval = id,
                  !.timers = @ \cup {id},
                  !.step = [@ EXCEPT ![id] = 0],
                  !.lastTimer = id]

\* one run of the callback of timer id; its step stops counting once it has
\* reached the number of messages, from where every run takes the else branch
History_Callback(p, id) ==
    LET n == p.step[id] + 1
    IN  IF n < History_Messages
        THEN [p EXCEPT !.step[id] = n, !.loadingText = Message(n)]
        ELSE [ClearInterval(p, p.loadingInterval)
                 EXCEPT !.step[id] = History_Messages, !.loadingInterval = NoInterval]

\* handleSubmit up to its await (or its early return)
History_handleSubmit(p) ==
    IF Trim(p.specsInput) = ""
    THEN History_showError(p, "empty")
    ELSE History_simulateLoadingSteps(History_showLoading(p))

\* handleSubmit from the await on: try, catch, finally
History_afterAwait(p, outcome) ==
    LET tried ==
            CASE outcome = "success" ->
                     [p EXCEPT !.predictions = @ + 1, !.specsInput = ""]
              [] outcome = "renderThrows" ->
                     History_showError([p EXCEPT !.predictions = @ + 1], "failed")
              [] OTHER -> History_showError(p, "failed")
    IN  History_hideLoading(tried)


\* this.predictions = []
History_clearAllPredictions(p) == [p EXCEPT !.predictions = 0]

\* handleSubmit is entered on page p: the page it leaves and, if it sent a
\* request, the request now in flight
History_Enter(p) ==
    /\ Trim(p.specsInput) # "" => p.lastTimer < MaxSubmits
    /\ inFlight' = IF Trim(p.specsInput) = ""
                   THEN inFlight
                   ELSE inFlight \cup {p.lastTimer + 1}
    /\ handled' = "none"
    /\ UNCHANGED reading

History_Init ==
    /\ HandlerIdle
    /\ page = History_Page
    /\ inFlight = {}
    /\ reading = {}
    /\ handled = "none"

\* the user edits the textarea
History_Type(v) ==
    /\ v # page.specsInput
    /\ page' = [page EXCEPT !.specsInput = v]
    /\ UNCHANGED <<inFlight, reading, handled>>

\* the form is submitted with its button, which a disabled button refuses
History_Submit ==
    /\ ~page.disabled
    /\ History_Enter(page)
    /\ page' = History_handleSubmit(page)

\* Ctrl/Cmd+Enter calls handleSubmit whatever the button's state
History_Shortcut ==
    /\ History_Enter(page)
    /\ page' = History_handleSubmit(page)

\* Escape
History_Escape ==
    /\ page' = History_hideError(page)
    /\ UNCHANGED <<inFlight, reading, handled>>

\* "Try Again": the inline onclick dispatches submit to the form, then the
\* click listener hides the error
History_Retry ==
    /\ History_Enter(page)
    /\ page' = History_hideError(History_handleSubmit(page))

\* window.predictor.clearAllPredictions()
History_ClearAll ==
    /\ page' = History_clearAllPredictions(page)
    /\ UNCHANGED <<inFlight, reading, handled>>

\* the interval of a scheduled timer elapses
History_Tick(id) ==
    /\ id \in page.timers
    /\ page' = History_Callback(page, id)
    /\ UNCHANGED <<inFlight, reading, handled>>

\* the fetch of request r resolves: predictPrice resumes, tests response.ok
\* and waits again, for response.json()
History_FetchResolve(r) ==
    /\ r \in inFlight \ reading
    /\ reading' = reading \cup {r}
    /\ UNCHANGED <<page, inFlight, handled>>

\* the fetch of request r rejects: predictPrice throws and handleSubmit
\* resumes in its catch
History_FetchReject(r) ==
    /\ r \in inFlight \ reading
    /\ page' = History_afterAwait(page, "failure")
    /\ inFlight' = inFlight \ {r}
    /\ handled' = "failure"
    /\ UNCHANGED reading

\* response.json() of request r settles: predictPrice returns or throws and
\* handleSubmit resumes
History_Settle(r, outcome) ==
    /\ r \in reading
    /\ page' = History_afterAwait(page, outcome)
    /\ inFlight' = inFlight \ {r}
    /\ reading' = reading \ {r}
    /\ handled' = outcome

History_Next ==
    \/ (\E v \in InputValues : History_Type(v)) /\ UNCHANGED <<handlerVars, first>>
    \/ History_Submit /\ UNCHANGED <<handlerVars, first>>
    \/ History_Shortcut /\ UNCHANGED <<handlerVars, first>>
    \/ History_Escape /\ UNCHANGED <<handlerVars, first>>
    \/ History_Retry /\ UNCHANGED <<handlerVars, first>>
    \/ History_ClearAll /\ UNCHANGED <<handlerVars, first>>
    \/ (\E id \in TimerIds : History_Tick(id)) /\ UNCHANGED <<handlerVars, first>>
    \/ (\E r \in TimerIds : History_FetchResolve(r)) /\ UNCHANGED <<handlerVars, first>>
    \/ (\E r \in TimerIds : History_FetchReject(r)) /\ UNCHANGED <<handlerVars, first>>
    \/ (\E r \in TimerIds, outcome \in Outcomes : History_Settle(r, outcome))
          /\ UNCHANGED <<handlerVars, first>>

History_Spec == History_Init /\ [][History_Next]_vars

\* C17: in the prediction-history client, whatever the interleaving of
\* submissions: once every request in flight has completed the predict
\* button is enabled, the loading section is hidden and no loading-message
\* timer remains scheduled; and while a request is in flight the button is
\* not enabled and the loading section is not hidden.
C17_LoadingFollowsRequests ==
    /\ inFlight = {} =>
           /\ ~page.disabled
           /\ page.hidden["loading"]
           /\ page.timers = {}
    /\ inFlight # {} =>
           /\ page.disabled
           /\ ~page.hidden["loading"]


(***************************************************************************)
(* src/unnamed/part_000: the single-result client.                         *)
(***************************************************************************)

\* this.loadingMessages.length
Single_Messages == 5

\* show one section and hide all others
Single_showSection(p, section) ==
    [p EXCEPT !.hidden = [x \in Sections |-> x # section]]

\* the constructor; init ends with showSection(this.inputSection)
Single_Page ==
    Single_showSection(
        [loaded |-> TRUE,
         specsInput |-> "",
         disabled |-> FALSE,
         hidden |-> [x \in Sections |-> FALSE],
         loadingText |-> 0,
         errorMessage |-> "markup",
         loadingInterval |-> NoInterval,
         timers |-> {},
         step |-> [i \in TimerIds |-> 0],
         lastTimer |-> 0],
        "input")

Single_showLoading(p) == Single_showSection([p EXCEPT !.disabled = TRUE], "loading")

Single_hideLoading(p) ==
    LET q == [p EXCEPT !.disabled = FALSE]
    IN  IF q.loadingInterval # NoInterval
        THEN [ClearInterval(q, q.loadingInterval) EXCEPT !.loadingInterval = NoInterval]
        ELSE q

Single_showResults(p) == Single_showSection(p, "results")

Single_showError(p, message) ==
    Single_showSection([p EXCEPT !.errorMessage = message], "error")

Single_hideError(p) == Single_showSection(p, "input")

Single_hideResults(p) == [p EXCEPT !.hidden["results"] = TRUE]

Single_simulateLoadingSteps(p) ==
    LET id == p.lastTimer + 1
    IN  [p EXCEPT !.loadingText = Message(0),
                  !.loadingInterval = id,
                  !.timers = @ \cup {id},
                  !.step = [@ EXCEPT ![id] = 0],
                  !.lastTimer = id]

\* one run of the callback of timer id (its step stops counting at the
\* number of messages)
Single_Callback(p, id) ==
    LET n == p.step[id] + 1
    IN  IF n < Single_Messages
        THEN [p EXCEPT !.step[id] = n, !.loadingText = Message(n)]
        ELSE [ClearInterval(p, p.loadingInterval)
                 EXCEPT !.step[id] = Single_Messages, !.loadingInterval = NoInterval]

\* handleSubmit up to its await (or its early return)
Single_handleSubmit(p) ==
    IF Trim(p.specsInput) = ""
    THEN Single_showError(p, "empty")
    ELSE Single_simulateLoadingSteps(
             Single_hideResults(Single_hideError(Single_showLoading(p))))

\* handleSubmit from the await on: showResults throws before its showSection
\* when the result does not render
Single_afterAwait(p, outcome) ==
    LET tried == IF outcome = "success"
                 THEN Single_showResults(p)
                 ELSE Single_showError(p, "failed")
    IN  Single_hideLoading(tried)

Single_Init ==
    /\ HandlerIdle
    /\ page = Single_Page
    /\ inFlight = {}
    /\ reading = {}
    /\ handled = "none"

\* the user edits the textarea
Single_Type(v) ==
    /\ v # page.specsInput
    /\ page' = [page EXCEPT !.specsInput = v]
    /\ UNCHANGED <<inFlight, reading, handled>>

\* a click on the predict button, which a disabled button refuses
Single_Click ==
    /\ ~page.disabled
    /\ Trim(page.specsInput) # "" => page.lastTimer < MaxSubmits
    /\ page' = Single_handleSubmit(page)
    /\ inFlight' = IF Trim(page.specsInput) = ""
                   THEN inFlight
                   ELSE inFlight \cup {page.lastTimer + 1}
    /\ handled' = "none"
    /\ UNCHANGED reading

\* a click on the retry button
Single_Retry ==
    /\ page' = Single_hideError(page)
    /\ inFlight' = inFlight
    /\ handled' = "none"
    /\ UNCHANGED reading

\* the interval of a scheduled timer elapses
Single_Tick(id) ==
    /\ id \in page.timers
    /\ page' = Single_Callback(page, id)
    /\ UNCHANGED <<inFlight, reading, handled>>

\* the fetch of request r resolves: predictPrice resumes, tests response.ok
\* and waits again, for response.json()
Single_FetchResolve(r) ==
    /\ r \in inFlight \ reading
    /\ reading' = reading \cup {r}
    /\ UNCHANGED <<page, inFlight, handled>>

\* the fetch of request r rejects: predictPrice throws and handleSubmit
\* resumes in its catch
Single_FetchReject(r) ==
    /\ r \in inFlight \ reading
    /\ page' = Single_afterAwait(page, "failure")
    /\ inFlight' = inFlight \ {r}
    /\ handled' = "failure"
    /\ UNCHANGED reading

\* response.json() of request r settles: predictPrice returns or throws and
\* handleSubmit resumes
Single_Settle(r, outcome) ==
    /\ r \in reading
    /\ page' = Single_afterAwait(page, outcome)
    /\ inFlight' = inFlight \ {r}
    /\ reading' = reading \ {r}
    /\ handled' = outcome

Single_Next ==
    \/ (\E v \in InputValues : Single_Type(v)) /\ UNCHANGED <<handlerVars, first>>
    \/ Single_Click /\ UNCHANGED <<handlerVars, first>>
    \/ Single_Retry /\ UNCHANGED <<handlerVars, first>>
    \/ (\E id \in TimerIds : Single_Tick(id)) /\ UNCHANGED <<handlerVars, first>>
    \/ (\E r \in TimerIds : Single_FetchResolve(r)) /\ UNCHANGED <<handlerVars, first>>
    \/ (\E r \in TimerIds : Single_FetchReject(r)) /\ UNCHANGED <<handlerVars, first>>
    \/ (\E r \in TimerIds, outcome \in Outcomes : Single_Settle(r, outcome))
          /\ UNCHANGED <<handlerVars, first>>

Single_Spec == Single_Init /\ [][Single_Next]_vars

Visible == {x \in Sections : ~page.hidden[x]}

\* C18: in the single-result client exactly one of the four sections is
\* visible after initialisation and after every handler step; from the
\* moment a non-empty submission starts its request until its response is
\* handled that section is the loading section; afterwards it is the results
\* section on success and the error section on failure.
C18_OneSectionFollowsRequest ==
    /\ Cardinality(Visible) = 1
    /\ inFlight # {} => Visible = {"loading"}
    /\ handled = "success" => Visible = {"results"}
    /\ handled = "failure" => Visible = {"error"}

====
